---- MODULE Spec2Model ----
(***************************************************************************)
(* onnx_mxnet/import_onnx.py: GraphProto.from_onnx and its helpers, as a   *)
(* state machine.  The builder's fields (_nodes, _params, _renames,        *)
(* _num_input, _num_param) are the state; from_onnx runs as a sequence of  *)
(* steps (one per loop iteration), each reading the next element of the    *)
(* foreign graph.  The graph is the call's immutable input: `graph` holds  *)
(* the part of it read so far, and graph.op_type the operator types of all *)
(* its nodes (the code reads graph.node[idx - 1].op_type, which for        *)
(* idx = 0 is the last node's).                                            *)
(*                                                                         *)
(* Tensors are modelled by their shape, mxnet symbols by the term that     *)
(* built them.  The mxnet constructors are total in the model.             *)
(*                                                                         *)
(* The specifications:                                                     *)
(*   Spec          from_onnx on graphs of up to MaxNodes nodes whose       *)
(*                 initializers and declared Inputs have distinct names;   *)
(*   SpecFamily    the same on graphs of the operators Spec leaves out;    *)
(*   SpecIngest    from_onnx on graphs without nodes, with any sequence of *)
(*                 initializers and declared Inputs;                       *)
(*   SpecReuse     from_onnx called again on a builder already used;       *)
(*   SpecAttr      _parse_attr on the attribute lists of one node;         *)
(*   SpecTranslate _convert_operator on one operator name.                 *)
(***************************************************************************)
EXTENDS Integers, Sequences, FiniteSets, TLC

VARIABLES
    _nodes,       \* self._nodes    : identifier -> symbol
    _params,      \* self._params   : identifier -> tensor
    _renames,     \* self._renames  : foreign identifier -> canonical identifier
    _num_input,   \* self._num_input
    _num_param,   \* self._num_param
    pc,           \* position inside from_onnx
    idx,          \* the node loop's index (0-based, as in the code)
    graph,        \* the foreign graph, as far as it has been read
    local,        \* from_onnx's locals between the fix-ups and the construction
    err,          \* the exception that ended the call, or NoError
    out           \* the symbol from_onnx returned, in a set ({} before it returns)

vars == <<_nodes, _params, _renames, _num_input, _num_param,
          pc, idx, graph, local, err, out>>

builder == <<_nodes, _params, _renames, _num_input, _num_param>>

-----------------------------------------------------------------------------
(* Bounds of the model *)

MaxInitializers == 2
MaxInputs == 3
MaxNodes == 2
MaxOutputs == 2
MaxIngestInitializers == 2
MaxIngestInputs == 3
MaxAttributes == 2
MaxFamilyNodes == 2
MaxReuseInitializers == 1
MaxReuseInputs == 2
MaxReuseIds == 3

-----------------------------------------------------------------------------
(* Values *)

NoError == "none"

EmptyMap == [k \in {} |-> 0]

Put(m, k, v) == [x \in DOMAIN m \cup {k} |-> IF x = k THEN v ELSE m[x]]

Pop(m, k) == [x \in DOMAIN m \ {k} |-> m[x]]

Get(m, k, default) == IF k \in DOMAIN m THEN m[k] ELSE default

Digits == <<"0", "1", "2", "3", "4", "5", "6", "7", "8", "9">>

(* A numbering that starts at 1 instead of 0. *)
FormatFromOne(prefix, n) == prefix \o "_" \o Digits[n + 2]

Format(prefix, n) == prefix \o "_" \o Digits[n + 1]

Blank == {"", " "}

Strip(s) == IF s \in Blank THEN "" ELSE s

PyIndex(seq, i) == IF i < 0 THEN seq[Len(seq) + i + 1] ELSE seq[i + 1]

RECURSIVE Product(_)
Product(dims) == IF dims = <<>> THEN 1 ELSE Head(dims) * Product(Tail(dims))

(* The reshape to (1, n) that the comment at line 212 speaks of. *)
ReshapeToOneN(shape, newshape) == <<1, Product(shape)>>

Reshape(shape, newshape) ==
    LET known == Product([k \in DOMAIN newshape |->
                             IF newshape[k] = -1 THEN 1 ELSE newshape[k]])
    IN  [k \in DOMAIN newshape |->
            IF newshape[k] = -1 THEN Product(shape) \div known ELSE newshape[k]]

NDArray(shape) == [shape |-> shape]

_parse_array(tensor_proto) == NDArray(tensor_proto.dims)

Sym(kind, name, shape, inputs, attrs, at, slot) ==
    [kind |-> kind, name |-> name, shape |-> shape, inputs |-> inputs,
     attrs |-> attrs, at |-> at, slot |-> slot]

Variable(name, shape) == Sym("Variable", name, shape, <<>>, EmptyMap, -1, 0)

Op(op, name, inputs, attrs, at) == Sym(op, name, {}, inputs, attrs, at, 0)

Slot(sym, i) == [sym EXCEPT !.slot = i]

Group(syms) == Sym("Group", "", {}, syms, EmptyMap, -1, 0)

-----------------------------------------------------------------------------
(* _parse_attr.  An AttributeProto is [name, fields]: fields maps each     *)
(* populated field (HasField(f) for a scalar, a non-empty list for a       *)
(* repeated field) to its value.  A parsed value is [field, value].        *)

ScalarFields == <<"f", "i", "s">>

ListFields == <<"floats", "ints", "strings">>

UnsupportedFields == <<"t", "g", "tensors", "graphs">>

TypedFields == {"f", "i", "s", "floats", "ints", "strings"}

OnlyOneType == "AssertionError: Only one type of attr is allowed"

FieldNotSupported == "NotImplementedError: Filed is not supported in mxnet."

CannotParse == "ValueError: Cannot parse attribute"

Result(e, v) == [err |-> e, val |-> v]

Populated(a, f) == f \in DOMAIN a.fields

AttrValue(a, f) == [field |-> f, value |-> a.fields[f]]

RECURSIVE ParseScalars(_, _, _)
ParseScalars(attrs, a, k) ==
    IF k > Len(ScalarFields) THEN attrs
    ELSE LET f == ScalarFields[k]
         IN  ParseScalars(IF Populated(a, f) THEN Put(attrs, a.name, AttrValue(a, f))
                          ELSE attrs, a, k + 1)

RECURSIVE ParseLists(_, _, _)
ParseLists(attrs, a, k) ==
    IF k > Len(ListFields) THEN Result(NoError, attrs)
    ELSE LET f == ListFields[k]
         IN  IF ~Populated(a, f) THEN ParseLists(attrs, a, k + 1)
             ELSE IF a.name \in DOMAIN attrs THEN Result(OnlyOneType, attrs)
             ELSE ParseLists(Put(attrs, a.name, AttrValue(a, f)), a, k + 1)

ParseOne(attrs, a) ==
    LET lists == ParseLists(ParseScalars(attrs, a, 1), a, 1)
    IN  IF lists.err # NoError THEN lists
        ELSE IF \E k \in DOMAIN UnsupportedFields : Populated(a, UnsupportedFields[k])
             THEN Result(FieldNotSupported, lists.val)
        ELSE IF a.name \notin DOMAIN lists.val THEN Result(CannotParse, lists.val)
        ELSE lists

RECURSIVE ParseFrom(_, _, _)
ParseFrom(attrs, attr_proto, k) ==
    IF k > Len(attr_proto) THEN Result(NoError, attrs)
    ELSE LET one == ParseOne(attrs, attr_proto[k])
         IN  IF one.err # NoError THEN one ELSE ParseFrom(one.val, attr_proto, k + 1)

_parse_attr(attr_proto) == ParseFrom(EmptyMap, attr_proto, 1)

-----------------------------------------------------------------------------
(* The operator translation table of import_helper, and the target         *)
(* framework's operators.                                                  *)

_identity_list == {"Relu", "Sigmoid"}

ConvertName ==
    [op \in {"Conv", "ConvTranspose", "FC", "Gemm", "Add", "Dropout", "Split"} |->
        CASE op = "Conv" -> "Convolution"
          [] op = "ConvTranspose" -> "Deconvolution"
          [] op = "FC" -> "FullyConnected"
          [] op = "Gemm" -> "linalg_gemm"
          [] op = "Add" -> "broadcast_add"
          [] op = "Dropout" -> "Dropout"
          [] op = "Split" -> "SliceChannel"]

AttrRename ==
    [k \in {"kernel_shape", "strides", "pads", "ratio"} |->
        CASE k = "kernel_shape" -> "kernel"
          [] k = "strides" -> "stride"
          [] k = "pads" -> "pad"
          [] k = "ratio" -> "p"]

ConvertAttrs(attrs) ==
    LET new == {Get(AttrRename, k, k) : k \in DOMAIN attrs}
    IN  [n \in new |-> attrs[CHOOSE k \in DOMAIN attrs : Get(AttrRename, k, k) = n]]

_convert_map(op_name, attrs) == [op |-> ConvertName[op_name], attrs |-> ConvertAttrs(attrs)]

MxSym == {"Relu", "Sigmoid", "Convolution", "Deconvolution", "FullyConnected",
          "linalg_gemm", "broadcast_add", "Dropout", "SliceChannel"}

ConvFamily == {"Convolution", "Deconvolution", "FullyConnected"}

(* The number of outputs a symbol lists: two for a split in two, one for   *)
(* the other operators of the table.                                       *)
NumOutputs(op) == IF op = "SliceChannel" THEN 2 ELSE 1

NotImplemented == "NotImplementedError: Operator not implemented."

UnableToMap == "RuntimeError: Unable to map op_name to sym"

(* identity_list=None and convert_map=None; an empty list or dict is as     *)
(* falsy as None (lines 44-45), so None is the empty list and NoMap the     *)
(* empty dict.  A convert_map that a caller passes maps an operator name to *)
(* the target name its function returns; its function converts the        *)
(* attributes as the table's functions do.                                 *)
None == {}

NoMap == EmptyMap

Converted(op, attrs) == [op |-> op, attrs |-> attrs]

(* The translation with the two lookups in the other order. *)
ConvertMapFirst(op_name, attrs, identity_list, convert_map) ==
    LET ids == IF identity_list = {} THEN _identity_list ELSE identity_list
        names == IF DOMAIN convert_map = {} THEN ConvertName ELSE convert_map
        conv == IF op_name \in DOMAIN names
                THEN Converted(names[op_name], ConvertAttrs(attrs))
                ELSE Converted(op_name, attrs)
    IN  IF op_name \notin ids /\ op_name \notin DOMAIN names
        THEN Result(NotImplemented, Converted(op_name, attrs))
        ELSE IF conv.op \notin MxSym THEN Result(UnableToMap, conv)
        ELSE Result(NoError, conv)

ConvertOperator(op_name, attrs, identity_list, convert_map) ==
    LET ids == IF identity_list = {} THEN _identity_list ELSE identity_list
        default == DOMAIN convert_map = {}
        in_map == IF default THEN op_name \in DOMAIN ConvertName
                  ELSE op_name \in DOMAIN convert_map
        conv == IF op_name \in ids THEN Converted(op_name, attrs)
                ELSE IF default THEN _convert_map(op_name, attrs)
                ELSE Converted(convert_map[op_name], ConvertAttrs(attrs))
    IN  IF op_name \notin ids /\ ~in_map
        THEN Result(NotImplemented, Converted(op_name, attrs))
        ELSE IF conv.op \notin MxSym THEN Result(UnableToMap, conv)
        ELSE Result(NoError, conv)

_convert_operator(op_name, attrs) == ConvertOperator(op_name, attrs, None, NoMap)

-----
(* The structural fix-ups *)

KeyError == "KeyError"

IndexError == "IndexError"

TypeError == "TypeError"

AssertionError == "AssertionError"

UnexpectedInputs == "ValueError: Unexpected number of inputs"

UnableToGetChannels == "ValueError: Unable to get channels/units attr from onnx graph."

WeightsShapeInvalid == "AssertionError: Weights shape is invalid"

TwoOutputsForDropout == "AssertionError: ONNX have two outputs for dropout layer."

OutputMismatch == "AssertionError: Number of output mismatch"

TensorNameRequired == "ValueError: Tensor's name is required."

Resolve(renames, i) == Get(renames, i, i)

(* No workaround: the declared outputs as they are. *)
DeclaredOutputs(op, outputs) == Result(NoError, outputs)

_fix_outputs(op, outputs) ==
    IF op = "Dropout"
    THEN IF Len(outputs) # 2 THEN Result(TwoOutputsForDropout, outputs)
         ELSE Result(NoError, SubSeq(outputs, 1, Len(outputs) - 1))
    ELSE Result(NoError, outputs)

(* The flag set as the docstring's 'use_bias' would be: true with a bias. *)
FixUseBias(op, attrs, num_inputs) ==
    IF op \notin ConvFamily THEN Result(NoError, attrs)
    ELSE IF num_inputs = 3 THEN Result(NoError, Put(attrs, "no_bias", TRUE))
    ELSE IF num_inputs = 2 THEN Result(NoError, Put(attrs, "no_bias", FALSE))
    ELSE Result(UnexpectedInputs, attrs)

_fix_bias(op, attrs, num_inputs) ==
    IF op \notin ConvFamily THEN Result(NoError, attrs)
    ELSE IF num_inputs = 3 THEN Result(NoError, Put(attrs, "no_bias", FALSE))
    ELSE IF num_inputs = 2 THEN Result(NoError, Put(attrs, "no_bias", TRUE))
    ELSE Result(UnexpectedInputs, attrs)

(* The fix-up without the FullyConnected case: always the filter count. *)
FixFilterCount(renames, params, op, attrs, inputs) ==
    IF op \notin ConvFamily THEN Result(NoError, attrs)
    ELSE IF Len(inputs) < 2 THEN Result(IndexError, attrs)
    ELSE IF inputs[2] \notin DOMAIN renames THEN Result(KeyError, attrs)
    ELSE LET weight_name == renames[inputs[2]]
         IN  IF weight_name \notin DOMAIN params THEN Result(UnableToGetChannels, attrs)
             ELSE LET wshape == params[weight_name].shape
                  IN  IF ~(Len(wshape) >= 2) THEN Result(WeightsShapeInvalid, attrs)
                      ELSE Result(NoError, Put(attrs, "num_filter", wshape[1]))

_fix_channels(renames, params, op, attrs, inputs) ==
    IF op \notin ConvFamily THEN Result(NoError, attrs)
    ELSE IF Len(inputs) < 2 THEN Result(IndexError, attrs)
    ELSE IF inputs[2] \notin DOMAIN renames THEN Result(KeyError, attrs)
    ELSE LET weight_name == renames[inputs[2]]
         IN  IF weight_name \notin DOMAIN params THEN Result(UnableToGetChannels, attrs)
             ELSE LET wshape == params[weight_name].shape
                  IN  IF ~(Len(wshape) >= 2) THEN Result(WeightsShapeInvalid, attrs)
                      ELSE IF op = "FullyConnected"
                           THEN Result(NoError, Put(attrs, "num_hidden", wshape[1]))
                           ELSE Result(NoError, Put(attrs, "num_filter", wshape[1]))

Registries(nodes, params) == [nodes |-> nodes, params |-> params]

_fix_bias_shape(renames, nodes, params, op_name, last_op_name, inputs) ==
    IF op_name = "Add" /\ last_op_name = "Conv"
    THEN IF Len(inputs) # 2 THEN Result(AssertionError, Registries(nodes, params))
         ELSE LET bias_name == Resolve(renames, inputs[2])
              IN  IF bias_name \notin DOMAIN params
                  THEN Result(KeyError, Registries(nodes, params))
                  ELSE IF Len(params[bias_name].shape) # 1
                       THEN Result(AssertionError, Registries(nodes, params))
                       ELSE LET bias == NDArray(Reshape(params[bias_name].shape,
                                                        <<1, -1, 1, 1>>))
                            IN  Result(NoError,
                                       Registries(Put(nodes, bias_name,
                                                      Variable(bias_name, {bias.shape})),
                                                  Put(params, bias_name, bias)))
    ELSE Result(NoError, Registries(nodes, params))

AutoName(op, at) == op \o Digits[at + 1]

Transpose(sym, at) ==
    Op("transpose", AutoName("transpose", at), <<sym>>, [k \in {"axes"} |-> <<1, 0>>], at)

MulScalar(scalar, sym, at) ==
    Op("_mul_scalar", AutoName("_mulscalar", at), <<sym>>, [k \in {"scalar"} |-> scalar], at)

IsNumber(attrs, key) == key \notin DOMAIN attrs \/ attrs[key].field \in {"f", "i"}

(* A lookup whose default is 0 for every key. *)
NumberOrZero(attrs, key, default) == IF key \in DOMAIN attrs THEN attrs[key].value[1] ELSE 0

Number(attrs, key, default) == IF key \in DOMAIN attrs THEN attrs[key].value[1] ELSE default

Gemm(op, inputs, attrs) == [op |-> op, inputs |-> inputs, attrs |-> attrs]

_fix_gemm(params, op_name, inputs, old_attr, at) ==
    LET op == op_name
        alpha == Number(old_attr, "alpha", 1)
        beta == Number(old_attr, "beta", 1)
        transA == Number(old_attr, "transA", 0)
        transB == Number(old_attr, "transB", 0)
        unchanged == Gemm(op, inputs, old_attr)
    IN  IF \E k \in {"alpha", "beta", "transA", "transB"} : ~IsNumber(old_attr, k)
        THEN Result(TypeError, unchanged)
        ELSE IF Len(inputs) < 3 THEN Result(IndexError, unchanged)
        ELSE LET in0 == IF transA # 0 THEN Transpose(inputs[1], at) ELSE inputs[1]
                 in1 == IF transB = 0 THEN Transpose(inputs[2], at) ELSE inputs[2]
                 new_inputs == <<MulScalar(alpha, in0, at), in1,
                                 MulScalar(beta, inputs[3], at)>>
             IN  IF inputs[3].name \notin DOMAIN params THEN Result(KeyError, unchanged)
                 ELSE Result(NoError,
                             Gemm(op, new_inputs,
                                  [k \in {"num_hidden"} |->
                                      params[inputs[3].name].shape[1]]))

-----------------------------------------------------------------------------
(* The foreign graphs the model reads.  x is a data input, w a weight of  *)
(* rank 2, b a bias of rank 1; y, z and mask are identifiers that nodes     *)
(* produce.  NewTensors and NewNames keep the names of Spec's graphs        *)
(* distinct; the Ingest sets add a second w, a repeated name and names that *)
(* look like canonical ids.                                                *)

TensorProto(name, dims) == [name |-> name, dims |-> dims]

Tensors == {TensorProto("w", <<3, 2>>), TensorProto("b", <<2>>), TensorProto(" ", <<2>>)}

InputNames == {"x", "w", "b"}

IngestTensors == Tensors \cup {TensorProto("w", <<2>>), TensorProto("param_0", <<2>>)}

IngestNames == InputNames \cup {"param_0"}

Range(seq) == {seq[k] : k \in DOMAIN seq}

NewTensors == {t \in Tensors : t.name \notin {u.name : u \in Range(graph.initializer)}}

NewNames == InputNames \ Range(graph.input)

OpTypes == {"Conv", "Add", "Relu", "Gemm", "Dropout", "Foo"}

FamilyOpTypes == {"Conv", "ConvTranspose", "FC", "Split", "Sigmoid", "Dropout"}

NodeInputs(op_type) ==
    CASE op_type = "Conv" -> {<<"x">>, <<"x", "w">>, <<"x", "b">>, <<"x", "x">>,
                              <<"x", "y">>, <<"y", "w">>, <<"x", "w", "b">>}
      [] op_type = "Add" -> {<<"y">>, <<"x", "b">>, <<"y", "b">>, <<"y", "w">>,
                             <<"x", "x">>, <<"y", "b", "b">>}
      [] op_type = "Gemm" -> {<<"x", "w">>, <<"x", "w", "b">>, <<"x", "w", "y">>}
      [] op_type = "Dropout" -> {<<"x">>, <<"y">>}
      [] op_type \in {"FC", "ConvTranspose"} ->
            {<<>>, <<"x">>, <<"x", "w">>, <<"x", "b">>, <<"x", "w", "b">>,
             <<"x", "w", "b", "b">>}
      [] op_type \in {"Split", "Sigmoid"} -> {<<"x">>}
      [] OTHER -> {<<"x">>, <<"y">>, <<"z">>}

NodeOutputs(op_type) ==
    IF op_type = "Dropout" THEN {<<"y">>, <<"z", "mask">>, <<"z", "mask", "mask">>}
    ELSE IF op_type \in {"FC", "ConvTranspose"} THEN {<<"y">>, <<"y", "z">>}
    ELSE IF op_type = "Split" THEN {<<"y">>, <<"y", "z">>, <<"z", "x">>, <<"y", "z", "mask">>}
    ELSE IF op_type = "Sigmoid" THEN {<<"y">>, <<"y", "z">>, <<"param_0">>, <<"param_1">>}
    ELSE {<<"y">>, <<"z">>, <<"y", "z">>, <<"input_0">>}

AttributeProto(name, fields) == [name |-> name, fields |-> fields]

Field(f, v) == [k \in {f} |-> v]

NodeAttributes(op_type) ==
    IF op_type = "Gemm"
    THEN {<<>>, <<AttributeProto("alpha", Field("f", <<2>>)),
                  AttributeProto("transB", Field("i", <<1>>))>>,
          <<AttributeProto("transA", Field("i", <<1>>)),
            AttributeProto("beta", Field("f", <<3>>))>>}
    ELSE IF op_type = "Relu" THEN {<<>>, <<AttributeProto("k", EmptyMap)>>}
    ELSE IF op_type \in {"FC", "ConvTranspose", "Sigmoid"}
    THEN {<<>>, <<AttributeProto("kernel_shape", Field("ints", <<3, 3>>))>>}
    ELSE {<<>>}

NodeProto(op_type, input, output, attribute) ==
    [op_type |-> op_type, input |-> input, output |-> output, attribute |-> attribute]

Nodes(op_type) ==
    {NodeProto(op_type, i, o, a) : i \in NodeInputs(op_type), o \in NodeOutputs(op_type),
                                   a \in NodeAttributes(op_type)}

SeqsUpTo(S, n) == UNION {[1..k -> S] : k \in 0..n}

IngestOutputNames == {"x", "input_0", "param_0"}

FieldValue(f) ==
    CASE f = "f" -> <<1>>
      [] f = "i" -> <<2>>
      [] f = "s" -> <<3>>
      [] f = "floats" -> <<1, 1>>
      [] f = "ints" -> <<2, 2>>
      [] f = "strings" -> <<3, 3>>
      [] OTHER -> <<0>>

FieldSets == SUBSET TypedFields \cup {{"t"}, {"i", "g"}, {"tensors"}, {"ints", "graphs"}}

Attributes ==
    {AttributeProto(n, [f \in fs |-> FieldValue(f)]) : n \in {"a", "k"}, fs \in FieldSets}

OutputNames == {"x", "y", "z"}

-----------------------------------------------------------------------------
(* GraphProto.__init__ and from_onnx *)

NoLocal == [new_op |-> "", new_attr |-> EmptyMap, attr |-> EmptyMap]

NoGraph == [initializer |-> <<>>, input |-> <<>>, op_type |-> <<>>, node |-> <<>>,
            output |-> <<>>]

Init ==
    /\ _nodes = EmptyMap
    /\ _params = EmptyMap
    /\ _renames = EmptyMap
    /\ _num_input = 0
    /\ _num_param = 0
    /\ pc = "idle"
    /\ idx = 0
    /\ graph = NoGraph
    /\ local = NoLocal
    /\ err = NoError
    /\ out = {}

Raise(e) == pc' = "failed" /\ err' = e

Call ==
    /\ pc = "idle"
    /\ pc' = "initializer"
    /\ graph' = NoGraph
    /\ idx' = 0
    /\ UNCHANGED <<builder, local, err, out>>

Initializer(tensors, max) ==
    /\ pc = "initializer"
    /\ Len(graph.initializer) < max
    /\ \E init_tensor \in tensors :
        /\ graph' = [graph EXCEPT !.initializer = Append(@, init_tensor)]
        /\ IF Strip(init_tensor.name) = ""
           THEN Raise(TensorNameRequired) /\ UNCHANGED _params
           ELSE /\ _params' = Put(_params, init_tensor.name, _parse_array(init_tensor))
                /\ UNCHANGED <<pc, err>>
    /\ UNCHANGED <<_nodes, _renames, _num_input, _num_param, idx, local, out>>

Inputs ==
    /\ pc = "initializer"
    /\ pc' = "input"
    /\ UNCHANGED <<builder, idx, graph, local, err, out>>

Input(names, max) ==
    /\ pc = "input"
    /\ Len(graph.input) < max
    /\ \E i \in names :
        /\ graph' = [graph EXCEPT !.input = Append(@, i)]
        /\ IF i \in DOMAIN _params
           THEN LET name_param == Format("param", _num_param)
                    moved == Put(Pop(_params, i), name_param, _params[i])
                IN  /\ _num_param' = _num_param + 1
                    /\ _params' = moved
                    /\ _nodes' = Put(_nodes, name_param,
                                     Variable(name_param, {moved[name_param].shape}))
                    /\ _renames' = Put(_renames, i, name_param)
                    /\ UNCHANGED _num_input
           ELSE LET name_input == Format("input", _num_input)
                IN  /\ _num_input' = _num_input + 1
                    /\ _nodes' = Put(_nodes, name_input, Variable(name_input, {}))
                    /\ _renames' = Put(_renames, i, name_input)
                    /\ UNCHANGED <<_num_param, _params>>
    /\ UNCHANGED <<pc, idx, local, err, out>>

NodesOf(op_types, max) ==
    /\ pc = "input"
    /\ \E op_type \in SeqsUpTo(op_types, max) :
        graph' = [graph EXCEPT !.op_type = op_type]
    /\ pc' = "node"
    /\ UNCHANGED <<builder, idx, local, err, out>>

Nodes_(max) == NodesOf(OpTypes, max)

(* A lookup that yields None for an unknown identifier instead of raising. *)
ResolvableWithGet(renames, nodes, input) == TRUE

Resolvable(renames, nodes, input) ==
    \A k \in DOMAIN input : Resolve(renames, input[k]) \in DOMAIN nodes

ResolveAll(renames, nodes, input) ==
    [k \in DOMAIN input |-> nodes[Resolve(renames, input[k])]]

Fixups(node) ==
    LET op_name == node.op_type
        parsed == _parse_attr(node.attribute)
        attr == parsed.val
        conv == _convert_operator(op_name, attr)
        new_op == conv.val.op
        bias == _fix_bias(new_op, conv.val.attrs, Len(node.input))
        chan == _fix_channels(_renames, _params, new_op, bias.val, node.input)
        shape == _fix_bias_shape(_renames, _nodes, _params, op_name,
                                 PyIndex(graph.op_type, idx - 1), node.input)
        same == Registries(_nodes, _params)
    IN  IF parsed.err # NoError THEN [err |-> parsed.err, reg |-> same, local |-> NoLocal]
        ELSE IF conv.err # NoError THEN [err |-> conv.err, reg |-> same, local |-> NoLocal]
        ELSE IF ~Resolvable(_renames, _nodes, node.input)
             THEN [err |-> KeyError, reg |-> same, local |-> NoLocal]
        ELSE IF bias.err # NoError THEN [err |-> bias.err, reg |-> same, local |-> NoLocal]
        ELSE IF chan.err # NoError THEN [err |-> chan.err, reg |-> same, local |-> NoLocal]
        ELSE IF shape.err # NoError THEN [err |-> shape.err, reg |-> same, local |-> NoLocal]
        ELSE [err |-> NoError, reg |-> shape.val,
              local |-> [new_op |-> new_op, new_attr |-> chan.val, attr |-> attr]]

Node ==
    /\ pc = "node"
    /\ idx < Len(graph.op_type)
    /\ \E node \in Nodes(graph.op_type[idx + 1]) :
        LET fix == Fixups(node)
        IN  /\ graph' = [graph EXCEPT !.node = Append(@, node)]
            /\ _nodes' = fix.reg.nodes
            /\ _params' = fix.reg.params
            /\ local' = fix.local
            /\ IF fix.err # NoError THEN Raise(fix.err)
               ELSE pc' = "construct" /\ UNCHANGED err
    /\ UNCHANGED <<_renames, _num_input, _num_param, idx, out>>

(* Every output identifier registered to the symbol itself (its slot 0). *)
RECURSIVE RegisterSymbol(_, _, _, _)
RegisterSymbol(nodes, node_output, op, k) ==
    IF k > Len(node_output) THEN nodes
    ELSE RegisterSymbol(Put(nodes, node_output[k], op), node_output, op, k + 1)

RECURSIVE Register(_, _, _, _)
Register(nodes, node_output, op, k) ==
    IF k > Len(node_output) THEN nodes
    ELSE Register(Put(nodes, node_output[k], Slot(op, k - 1)), node_output, op, k + 1)

Construct(node) ==
    LET op_name == node.op_type
        inputs == ResolveAll(_renames, _nodes, node.input)
        gemm == IF op_name = "Gemm"
                THEN _fix_gemm(_params, "FullyConnected", inputs, local.attr, idx)
                ELSE Result(NoError, Gemm(local.new_op, inputs, local.new_attr))
        op == Op(gemm.val.op, AutoName(gemm.val.op, idx), gemm.val.inputs,
                 gemm.val.attrs, idx)
        node_output == _fix_outputs(op_name, node.output)
    IN  IF gemm.err # NoError THEN Result(gemm.err, _nodes)
        ELSE IF node_output.err # NoError THEN Result(node_output.err, _nodes)
        ELSE IF Len(node_output.val) # NumOutputs(op.kind)
             THEN Result(OutputMismatch, _nodes)
        ELSE Result(NoError, Register(_nodes, node_output.val, op, 1))

NodeConstruct ==
    /\ pc = "construct"
    /\ LET built == Construct(graph.node[idx + 1])
       IN  /\ _nodes' = built.val
           /\ IF built.err # NoError THEN Raise(built.err) /\ UNCHANGED idx
              ELSE pc' = "node" /\ idx' = idx + 1 /\ UNCHANGED err
    /\ local' = NoLocal
    /\ UNCHANGED <<_params, _renames, _num_input, _num_param, graph, out>>

Outputs(names, max) ==
    /\ pc = "node"
    /\ idx = Len(graph.op_type)
    /\ \E output \in SeqsUpTo(names, max) :
        /\ graph' = [graph EXCEPT !.output = output]
        /\ IF \E k \in DOMAIN output : output[k] \notin DOMAIN _nodes
           THEN Raise(KeyError) /\ UNCHANGED out
           ELSE IF Len(output) > 1
                THEN /\ out' = {Group([k \in DOMAIN output |-> _nodes[output[k]]])}
                     /\ pc' = "done"
                     /\ UNCHANGED err
           ELSE IF Len(output) = 0 THEN Raise(IndexError) /\ UNCHANGED out
           ELSE /\ out' = {_nodes[output[1]]}
                /\ pc' = "done"
                /\ UNCHANGED err
    /\ UNCHANGED <<builder, idx, local>>

Next ==
    \/ Call
    \/ Initializer(NewTensors, MaxInitializers)
    \/ Inputs
    \/ Input(NewNames, MaxInputs)
    \/ Nodes_(MaxNodes)
    \/ Node
    \/ NodeConstruct
    \/ Outputs(OutputNames, MaxOutputs)

Spec == Init /\ [][Next]_vars

(* from_onnx on the graphs without nodes, with any initializers and        *)
(* declared Inputs (repeated names, names that look like canonical ids).   *)

NextIngest ==
    \/ Call
    \/ Initializer(IngestTensors, MaxIngestInitializers)
    \/ Inputs
    \/ Input(IngestNames, MaxIngestInputs)
    \/ Nodes_(0)
    \/ Outputs(IngestOutputNames, MaxOutputs)

SpecIngest == Init /\ [][NextIngest]_vars

(* from_onnx on graphs of up to MaxFamilyNodes nodes of the operators that  *)
(* Spec's graphs leave out: the rest of the convolution family, an operator *)
(* with two outputs, and node outputs named like canonical ids.            *)

NextFamily ==
    \/ Call
    \/ Initializer(NewTensors, MaxInitializers)
    \/ Inputs
    \/ Input(NewNames, MaxInputs)
    \/ NodesOf(FamilyOpTypes, MaxFamilyNodes)
    \/ Node
    \/ NodeConstruct
    \/ Outputs(OutputNames, MaxOutputs)

SpecFamily == Init /\ [][NextFamily]_vars

(* from_onnx called again on the builder of a call that returned or       *)
(* failed, on graphs without nodes.  A builder that holds MaxReuseIds       *)
(* canonical ids is not used again.                                        *)

Fresh == <<EmptyMap, EmptyMap, EmptyMap, 0, 0>>

(* The fields as __init__ sets them. *)
FreshAtEntry(self) == Fresh

(* from_onnx starts at line 87 with the fields as they are. *)
AtEntry(self) == self

CallAgain ==
    /\ pc \in {"done", "failed"}
    /\ _num_input + _num_param < MaxReuseIds
    /\ pc' = "initializer"
    /\ graph' = NoGraph
    /\ idx' = 0
    /\ local' = NoLocal
    /\ err' = NoError
    /\ out' = {}
    /\ LET self == AtEntry(builder)
       IN  /\ _nodes' = self[1]
           /\ _params' = self[2]
           /\ _renames' = self[3]
           /\ _num_input' = self[4]
           /\ _num_param' = self[5]

ReuseTensors == {TensorProto("w", <<3, 2>>), TensorProto("b", <<2>>), TensorProto(" ", <<2>>)}

ReuseNames == {"x", "w"}

ReuseOutputNames == {"x", "input_0", "param_0", "param_1"}

NextReuse ==
    \/ Call
    \/ Initializer(ReuseTensors, MaxReuseInitializers)
    \/ Inputs
    \/ Input(ReuseNames, MaxReuseInputs)
    \/ Nodes_(0)
    \/ Outputs(ReuseOutputNames, 1)
    \/ CallAgain

SpecReuse == Init /\ [][NextReuse]_vars

(* _parse_attr alone, on the attribute lists of one node (line 111). *)

InitAttr ==
    /\ _nodes = EmptyMap
    /\ _params = EmptyMap
    /\ _renames = EmptyMap
    /\ _num_input = 0
    /\ _num_param = 0
    /\ pc = "attr"
    /\ idx = 0
    /\ \E attribute \in SeqsUpTo(Attributes, MaxAttributes) :
        graph = [NoGraph EXCEPT !.op_type = <<"Relu">>,
                                !.node = <<NodeProto("Relu", <<>>, <<>>, attribute)>>]
    /\ local = NoLocal
    /\ err = NoError
    /\ out = {}

ParseAttr ==
    /\ pc = "attr"
    /\ LET parsed == _parse_attr(graph.node[idx + 1].attribute)
       IN  /\ local' = [local EXCEPT !.attr = parsed.val]
           /\ err' = parsed.err
    /\ pc' = "parsed"
    /\ UNCHANGED <<builder, idx, graph, out>>

SpecAttr == InitAttr /\ [][ParseAttr]_vars

(* _convert_operator alone, on the operators, attributes, identity lists   *)
(* and conversion maps below.                                              *)

TranslateOps == {"Relu", "Dropout", "Conv", "Foo", "Bar"}

TranslateAttrs ==
    {_parse_attr(a).val :
        a \in {<<>>, <<AttributeProto("ratio", Field("f", <<1>>))>>,
               <<AttributeProto("kernel_shape", Field("ints", <<3, 3>>))>>}}

IdentityLists == {None, {"Relu", "Dropout"}, {"Conv", "Foo"}, {"Bar"}}

ConvertMaps ==
    {NoMap,
     [op \in {"Conv", "Relu"} |-> IF op = "Conv" THEN "Deconvolution" ELSE "Sigmoid"],
     [op \in {"Dropout", "Bar"} |-> IF op = "Bar" THEN "NoSuchOp" ELSE "Dropout"]}

InitTranslate ==
    /\ _nodes = EmptyMap
    /\ _params = EmptyMap
    /\ _renames = EmptyMap
    /\ _num_input = 0
    /\ _num_param = 0
    /\ pc = "translate"
    /\ idx = 0
    /\ graph = NoGraph
    /\ \E op_name \in TranslateOps, attrs \in TranslateAttrs,
          identity_list \in IdentityLists, convert_map \in ConvertMaps :
        local = [op_name |-> op_name, attr |-> attrs, identity_list |-> identity_list,
                 convert_map |-> convert_map, new_op |-> "", new_attr |-> EmptyMap]
    /\ err = NoError
    /\ out = {}

Translate ==
    /\ pc = "translate"
    /\ LET conv == ConvertOperator(local.op_name, local.attr, local.identity_list,
                                   local.convert_map)
       IN  /\ local' = [local EXCEPT !.new_op = IF conv.err = NoError THEN conv.val.op
                                                ELSE "",
                                     !.new_attr = IF conv.err = NoError THEN conv.val.attrs
                                                  ELSE EmptyMap]
           /\ err' = conv.err
    /\ pc' = "translated"
    /\ UNCHANGED <<builder, idx, graph, out>>

SpecTranslate == InitTranslate /\ [][Translate]_vars

-----------------------------------------------------------------------------
(* Steps of from_onnx, as the claims name them *)

NodeStep == pc = "node" /\ Len(graph'.node) = Len(graph.node) + 1

ConstructStep == pc = "construct" /\ pc' # "construct"

OutputsStep == pc = "node" /\ idx = Len(graph.op_type) /\ pc' # "node"

ThisNode == graph'.node[idx + 1]

(* Lines 111-113 pass for the node: it reaches the fix-ups. *)
ReachesFixups(node) ==
    /\ _parse_attr(node.attribute).err = NoError
    /\ _convert_operator(node.op_type, _parse_attr(node.attribute).val).err = NoError
    /\ Resolvable(_renames, _nodes, node.input)

TargetOf(node) == _convert_operator(node.op_type, _parse_attr(node.attribute).val).val.op

ParamIds == {Format("param", n) : n \in 0..9}

-----------------------------------------------------------------------------
(* C1: for every node index i, the first included, the bias-broadcast-shape *)
(* fix-up changes the Parameter Registry or the Node Registry only if node  *)
(* i is an Add and there is a node i-1 whose operator type is Conv.         *)
C1_FixupOnlyAfterConv ==
    [][(NodeStep /\ <<_nodes, _params>>' # <<_nodes, _params>>)
        => (ThisNode.op_type = "Add" /\ idx >= 1 /\ graph.op_type[idx] = "Conv")]_vars

(* C2: during one call the Node Registry only grows and no key that holds  *)
(* an entry is written again, for any graph; the one exception is the bias *)
(* fix-up replacing the variable node of the bias parameter.               *)
C2_NeverOverwritten ==
    [][\A k \in DOMAIN _nodes :
          /\ k \in DOMAIN _nodes'
          /\ _nodes'[k] # _nodes[k]
               => (NodeStep /\ k \in DOMAIN _params' /\ _nodes'[k].kind = "Variable")]_vars

(* C3: for a node of the convolution family with 2 or 3 inputs that reaches *)
(* the channel-count fix-up, a second input that does not resolve to a      *)
(* known parameter fails with the missing-weight-parameter ValueError, and  *)
(* a weight parameter of rank below 2 with the invalid-weight-shape error.  *)
C3_MissingWeightError ==
    [][(/\ NodeStep
        /\ ReachesFixups(ThisNode)
        /\ TargetOf(ThisNode) \in ConvFamily
        /\ Len(ThisNode.input) \in {2, 3})
        => LET weight_name == Resolve(_renames, ThisNode.input[2])
           IN  /\ weight_name \notin DOMAIN _params => err' = UnableToGetChannels
               /\ (weight_name \in DOMAIN _params /\ Len(_params[weight_name].shape) < 2)
                    => err' = WeightsShapeInvalid]_vars

(* C4: _parse_attr succeeds only if every attribute has exactly one of the *)
(* six typed fields populated: two or more populated fields, in any        *)
(* combination, and no populated field both make the parsing fail.         *)
C4_ExactlyOneTypedField ==
    (pc = "parsed" /\ err = NoError)
        => \A k \in DOMAIN graph.node[1].attribute :
              Cardinality(DOMAIN graph.node[1].attribute[k].fields \cap TypedFields) = 1

(* C5: for every graph whose initializer names are pairwise distinct, after *)
(* from_onnx on a fresh builder the Parameter Registry holds exactly one    *)
(* entry per initializer, whatever the names and whichever are declared.    *)
C5_OneEntryPerInitializer ==
    (/\ pc = "done"
     /\ \A j, k \in DOMAIN graph.initializer :
           j # k => graph.initializer[j].name # graph.initializer[k].name)
        => Cardinality(DOMAIN _params) = Len(graph.initializer)

(* C6: on a fresh builder each declared Input gets the next id of its      *)
(* category (param_N if its name is a key of the Parameter Registry when   *)
(* it is reached, input_N otherwise), so the ids assigned are exactly      *)
(* input_0..input_{k-1} and param_0..param_{m-1}: first-seen order, no gap, *)
(* no id given twice.                                                      *)
InputStep == pc = "input" /\ Len(graph'.input) = Len(graph.input) + 1

InputId == <<"input_0", "input_1", "input_2", "input_3", "input_4",
             "input_5", "input_6", "input_7", "input_8", "input_9">>

ParamId == <<"param_0", "param_1", "param_2", "param_3", "param_4",
             "param_5", "param_6", "param_7", "param_8", "param_9">>

Assigned(k, m) == {InputId[j] : j \in 1..k} \cup {ParamId[j] : j \in 1..m}

C6_DenseCanonicalIds ==
    [][InputStep
        => LET name == graph'.input[Len(graph'.input)]
               is_param == name \in DOMAIN _params
               id == IF is_param THEN ParamId[_num_param + 1] ELSE InputId[_num_input + 1]
           IN  /\ id \notin DOMAIN _nodes
               /\ DOMAIN _nodes' = DOMAIN _nodes \cup {id}
               /\ _renames'[name] = id
               /\ _num_param' = _num_param + (IF is_param THEN 1 ELSE 0)
               /\ _num_input' = _num_input + (IF is_param THEN 0 ELSE 1)
               /\ _num_input' + _num_param' = Len(graph'.input)
               /\ DOMAIN _nodes' = Assigned(_num_input', _num_param')]_vars

C6_Witness ==
    /\ pc = "input"
    /\ Len(graph.input) = 3
    /\ _num_param = 2
    /\ _num_input = 1
    /\ DOMAIN _nodes = {"input_0", "param_0", "param_1"}

(* C7: every key of the parameter mapping from_onnx returns is a canonical *)
(* param_N id that is a value of the Canonical Identifier Map, for every   *)
(* graph.                                                                  *)
C7_KeysAreCanonical ==
    pc = "done"
        => \A k \in DOMAIN _params :
              k \in ParamIds /\ \E n \in DOMAIN _renames : _renames[n] = k

(* C8: finalization returns, for each declared Output in order, the target *)
(* node of that name, both when it is an output identifier of a translated *)
(* node and when it is the name of a declared Input or parameter (which is *)
(* registered under its canonical id): directly for one Output, as one     *)
(* group in output order for more.                                         *)
NodeOutputIds == {k \in DOMAIN _nodes : _nodes[k].at >= 0}

HasTarget(name) == name \in NodeOutputIds \/ name \in DOMAIN _renames

Target(name) == IF name \in NodeOutputIds THEN _nodes[name] ELSE _nodes[_renames[name]]

C8_OutputsReturned ==
    [][(/\ OutputsStep
        /\ Len(graph'.output) >= 1
        /\ \A k \in DOMAIN graph'.output : HasTarget(graph'.output[k]))
        => /\ pc' = "done"
           /\ out' = {IF Len(graph'.output) = 1 THEN Target(graph'.output[1])
                      ELSE Group([k \in DOMAIN graph'.output |-> Target(graph'.output[k])])}]_vars

(* C9: when the bias-broadcast-shape fix-up triggers on an Add with exactly *)
(* 2 inputs whose second input resolves to a parameter of shape (C,), the   *)
(* parameter's tensor gets shape (1,C,1,1), its Node Registry entry is a    *)
(* new variable of that shape, nothing else changes, and the Add is built   *)
(* from the new variable; with another number of inputs, or a parameter of  *)
(* rank other than 1, the call fails and both registries are unchanged.     *)
Triggers(node) ==
    /\ node.op_type = "Add"
    /\ PyIndex(graph.op_type, idx - 1) = "Conv"
    /\ ReachesFixups(node)

RECURSIVE BuiltBefore(_, _)
BuiltBefore(sym, i) ==
    \/ sym.kind = "Variable"
    \/ sym.at < i
    \/ /\ sym.kind \in {"transpose", "_mul_scalar"}
       /\ \A k \in DOMAIN sym.inputs : BuiltBefore(sym.inputs[k], i)

C10_StrictOrder ==
    [][/\ NodeStep => Len(graph.node) = idx /\ idx' = idx
       /\ (/\ NodeStep
           /\ \E k \in DOMAIN ThisNode.input :
                 Get(_renames, ThisNode.input[k], ThisNode.input[k]) \notin DOMAIN _nodes)
            => /\ pc' = "failed"
               /\ _nodes' = _nodes
               /\ \A k \in DOMAIN _nodes' : _nodes'[k].at < idx
       /\ (ConstructStep /\ pc' = "node")
            => /\ idx' = idx + 1
               /\ \A k \in DOMAIN _nodes' :
                     \/ k \in DOMAIN _nodes /\ _nodes'[k] = _nodes[k]
                     \/ /\ _nodes'[k].at = idx
                        /\ \A j \in DOMAIN _nodes'[k].inputs :
                              BuiltBefore(_nodes'[k].inputs[j], idx)]_vars

C10_Witness ==
    /\ pc = "failed"
    /\ err = KeyError
    /\ idx = 0
    /\ Len(graph.op_type) = 2
    /\ Len(graph.node) = 1
    /\ graph.node[1].input = <<"y">>
    /\ "y" \notin DOMAIN _nodes
    /\ "y" \notin DOMAIN _renames

-----------------------------------------------------------------------------
(* C11: for a node whose translated operator is Convolution, Deconvolution *)
(* or FullyConnected, 3 inputs set no_bias = False, 2 inputs set           *)
(* no_bias = True, and any other number of inputs fails with the           *)
(* unexpected-number-of-inputs ValueError; for every other operator the    *)
(* bias fix-up returns the attributes unchanged.  The node is built with   *)
(* the attributes the fix-ups returned.                                    *)
ConvertedAttrs(node) ==
    _convert_operator(node.op_type, _parse_attr(node.attribute).val).val.attrs

C11_BiasFlagFromInputCount ==
    [][/\ (NodeStep /\ ReachesFixups(ThisNode))
            => LET n == Len(ThisNode.input)
               IN  IF TargetOf(ThisNode) \in {"Convolution", "Deconvolution",
                                              "FullyConnected"}
                   THEN /\ n \notin {2, 3} => pc' = "failed" /\ err' = UnexpectedInputs
                        /\ n \in {2, 3} => err' # UnexpectedInputs
                        /\ (n = 3 /\ pc' = "construct") => local'.new_attr["no_bias"] = FALSE
                        /\ (n = 2 /\ pc' = "construct") => local'.new_attr["no_bias"] = TRUE
                   ELSE /\ err' # UnexpectedInputs
                        /\ pc' = "construct" => local'.new_attr = ConvertedAttrs(ThisNode)
       /\ (/\ ConstructStep
           /\ pc' = "node"
           /\ graph.node[idx + 1].op_type # "Gemm")
            => _nodes'[graph.node[idx + 1].output[1]].attrs = local.new_attr]_vars

C11_Witness ==
    /\ pc = "node"
    /\ idx = 1
    /\ graph.node[1].op_type = "ConvTranspose"
    /\ Len(graph.node[1].input) = 3
    /\ "y" \in DOMAIN _nodes
    /\ _nodes["y"].kind = "Deconvolution"
    /\ _nodes["y"].attrs["no_bias"] = FALSE

(* C12: a Gemm node with three inputs whose third input is a parameter is  *)
(* built as FullyConnected: A transposed iff transA is non-zero, B         *)
(* transposed iff transB is zero, A multiplied by alpha and C by beta,     *)
(* num_hidden the leading dimension of the bias parameter's shape, and no  *)
(* other attribute; an absent alpha or beta counts as 1, an absent transA  *)
(* or transB as 0.                                                         *)
Given(node, name, default) ==
    LET ks == {k \in DOMAIN node.attribute : node.attribute[k].name = name}
    IN  IF ks = {} THEN default
        ELSE LET a == node.attribute[CHOOSE k \in ks : TRUE]
             IN  a.fields[CHOOSE f \in DOMAIN a.fields : TRUE][1]

IsParameter(name) ==
    /\ Get(_renames, name, name) \in DOMAIN _nodes
    /\ _nodes[Get(_renames, name, name)].kind = "Variable"
    /\ _nodes[Get(_renames, name, name)].name \in DOMAIN _params

C12_GemmAsFullyConnected ==
    [][(/\ ConstructStep
        /\ graph.node[idx + 1].op_type = "Gemm"
        /\ Len(graph.node[idx + 1].input) = 3
        /\ IsParameter(graph.node[idx + 1].input[3])
        /\ Len(graph.node[idx + 1].output) = 1)
        => LET node == graph.node[idx + 1]
               A == _nodes[Get(_renames, node.input[1], node.input[1])]
               B == _nodes[Get(_renames, node.input[2], node.input[2])]
               C == _nodes[Get(_renames, node.input[3], node.input[3])]
               built == _nodes'[node.output[1]]
               scaledA == built.inputs[1]
               scaledC == built.inputs[3]
           IN  /\ pc' = "node"
               /\ built.kind = "FullyConnected"
               /\ Len(built.inputs) = 3
               /\ scaledA.kind = "_mul_scalar"
               /\ scaledA.attrs["scalar"] = Given(node, "alpha", 1)
               /\ IF Given(node, "transA", 0) # 0
                  THEN /\ scaledA.inputs[1].kind = "transpose"
                       /\ scaledA.inputs[1].inputs = <<A>>
                  ELSE scaledA.inputs = <<A>>
               /\ IF Given(node, "transB", 0) = 0
                  THEN /\ built.inputs[2].kind = "transpose"
                       /\ built.inputs[2].inputs = <<B>>
                  ELSE built.inputs[2] = B
               /\ scaledC.kind = "_mul_scalar"
               /\ scaledC.attrs["scalar"] = Given(node, "beta", 1)
               /\ scaledC.inputs = <<C>>
               /\ DOMAIN built.attrs = {"num_hidden"}
               /\ built.attrs["num_hidden"] = _params[C.name].shape[1]]_vars

C12_Witness ==
    /\ pc = "node"
    /\ idx = 1
    /\ graph.node[1].op_type = "Gemm"
    /\ Len(graph.node[1].attribute) = 2
    /\ graph.node[1].attribute[1].name = "transA"
    /\ graph.node[1].output = <<"y">>
    /\ "y" \in DOMAIN _nodes
    /\ _nodes["y"].kind = "FullyConnected"
    /\ _nodes["y"].inputs[1].attrs["scalar"] = 1
    /\ _nodes["y"].inputs[1].inputs[1].kind = "transpose"
    /\ _nodes["y"].inputs[2].kind = "transpose"
    /\ _nodes["y"].inputs[3].attrs["scalar"] = 3
    /\ _nodes["y"].attrs["num_hidden"] = 2

(* C13: a Dropout node that declares exactly 2 outputs [y, mask] registers *)
(* exactly one output, under y, and writes no Node Registry entry for      *)
(* mask; with any other number of declared outputs the call fails with the *)
(* two-outputs-for-dropout error and registers nothing.  For every other   *)
(* operator the declared output list is used as it is: each of its         *)
(* identifiers is registered.                                              *)
Written == {k \in DOMAIN _nodes' : k \notin DOMAIN _nodes \/ _nodes'[k] # _nodes[k]}

C13_DropoutRegistersFirstOutput ==
    [][ConstructStep
        => LET node == graph.node[idx + 1]
           IN  IF node.op_type = "Dropout"
               THEN IF Len(node.output) = 2
                    THEN /\ pc' = "node"
                         /\ Written = {node.output[1]}
                         /\ _nodes'[node.output[1]].kind = "Dropout"
                         /\ _nodes'[node.output[1]].at = idx
                         /\ _nodes'[node.output[1]].slot = 0
                         /\ node.output[2] \notin DOMAIN _nodes
                              => node.output[2] \notin DOMAIN _nodes'
                    ELSE /\ pc' = "failed"
                         /\ err' = TwoOutputsForDropout
                         /\ _nodes' = _nodes
               ELSE /\ err' # TwoOutputsForDropout
                    /\ pc' = "node"
                         => /\ Written = Range(node.output)
                            /\ \A j \in DOMAIN node.output :
                                  _nodes'[node.output[j]].at = idx]_vars

C13_Witness ==
    /\ pc = "node"
    /\ idx = 1
    /\ graph.node[1].op_type = "Dropout"
    /\ graph.node[1].output = <<"z", "mask">>
    /\ "z" \in DOMAIN _nodes
    /\ _nodes["z"].kind = "Dropout"
    /\ "mask" \notin DOMAIN _nodes

(* C14: for a convolution-family node whose second input resolves to a    *)
(* parameter of rank at least 2, the channel-count fix-up sets num_hidden  *)
(* (FullyConnected) or num_filter (Convolution, Deconvolution) to the      *)
(* first dimension of that parameter's shape and sets no other attribute:  *)
(* the node's attributes are the translated ones, the bias flag and that   *)
(* one count.                                                              *)
C14_ChannelCountFromWeight ==
    [][(/\ NodeStep
        /\ ReachesFixups(ThisNode)
        /\ TargetOf(ThisNode) \in {"Convolution", "Deconvolution", "FullyConnected"}
        /\ Len(ThisNode.input) \in {2, 3}
        /\ Get(_renames, ThisNode.input[2], ThisNode.input[2]) \in DOMAIN _params
        /\ Len(_params[Get(_renames, ThisNode.input[2], ThisNode.input[2])].shape) >= 2)
        => LET weight == _params[Get(_renames, ThisNode.input[2], ThisNode.input[2])]
               count == IF TargetOf(ThisNode) = "FullyConnected" THEN "num_hidden"
                        ELSE "num_filter"
               translated == ConvertedAttrs(ThisNode)
               new_attr == local'.new_attr
           IN  /\ pc' = "construct"
               /\ DOMAIN new_attr = DOMAIN translated \cup {"no_bias", count}
               /\ new_attr[count] = weight.shape[1]
               /\ \A k \in DOMAIN translated : new_attr[k] = translated[k]]_vars

C14_Witness ==
    /\ pc = "construct"
    /\ graph.node[idx + 1].op_type = "FC"
    /\ graph.node[idx + 1].input = <<"x", "w">>
    /\ Len(graph.node[idx + 1].attribute) = 1
    /\ _params[_renames["w"]].shape = <<3, 2>>
    /\ local.new_op = "FullyConnected"
    /\ DOMAIN local.new_attr = {"kernel", "no_bias", "num_hidden"}
    /\ local.new_attr["num_hidden"] = 3

(* C15: if op_name is in the identity set, the target operator is the one  *)
(* of the same name and the attribute mapping is returned unchanged, also  *)
(* when the conversion map has an entry for op_name; else if op_name is in *)
(* the conversion map the result is that function's result on attrs; else  *)
(* the call fails with the operator-not-implemented error.  A name that is *)
(* no operator of the target framework fails with unable-to-map.           *)
IdentitySet == IF local.identity_list = {} THEN _identity_list ELSE local.identity_list

ConversionMap == IF DOMAIN local.convert_map = {} THEN ConvertName ELSE local.convert_map

C15_IdentityThenMap ==
    pc = "translated"
        => IF local.op_name \in IdentitySet
           THEN IF local.op_name \in MxSym
                THEN /\ err = NoError
                     /\ local.new_op = local.op_name
                     /\ local.new_attr = local.attr
                ELSE err = UnableToMap
           ELSE IF local.op_name \in DOMAIN ConversionMap
           THEN IF ConversionMap[local.op_name] \in MxSym
                THEN /\ err = NoError
                     /\ local.new_op = ConversionMap[local.op_name]
                     /\ local.new_attr = ConvertAttrs(local.attr)
                ELSE err = UnableToMap
           ELSE err = NotImplemented

C15_Witness ==
    /\ pc = "translated"
    /\ local.op_name = "Dropout"
    /\ local.identity_list = {"Relu", "Dropout"}
    /\ "Dropout" \in DOMAIN ConversionMap
    /\ DOMAIN local.attr = {"ratio"}
    /\ err = NoError
    /\ local.new_op = "Dropout"
    /\ DOMAIN local.new_attr = {"ratio"}

(* C16: for every node, the output identifiers are registered only after   *)
(* the output-arity check passes: if the number of identifiers left after  *)
(* the multi-output fix-up differs from the number of outputs the          *)
(* constructed symbol lists, the call fails and the node writes no Node    *)
(* Registry entry; otherwise identifier number j is registered to output   *)
(* slot j of the constructed symbol, for every j.                          *)
Left(node) ==
    IF node.op_type = "Dropout" THEN SubSeq(node.output, 1, 1) ELSE node.output

C16_RegisteredAfterArityCheck ==
    [][(/\ ConstructStep
        /\ graph.node[idx + 1].op_type = "Dropout" => Len(graph.node[idx + 1].output) = 2)
        => LET node == graph.node[idx + 1]
               slots == NumOutputs(local.new_op)
           IN  IF Len(Left(node)) # slots
               THEN /\ pc' = "failed"
                    /\ err' = OutputMismatch
                    /\ _nodes' = _nodes
               ELSE /\ pc' = "node"
                    /\ Written = Range(Left(node))
                    /\ \A j \in DOMAIN Left(node) :
                          /\ _nodes'[Left(node)[j]].kind = local.new_op
                          /\ _nodes'[Left(node)[j]].at = idx
                          /\ _nodes'[Left(node)[j]].slot = j - 1]_vars

C16_Witness ==
    /\ pc = "node"
    /\ idx = 1
    /\ graph.node[1].op_type = "Split"
    /\ graph.node[1].output = <<"y", "z">>
    /\ {"y", "z"} \subseteq DOMAIN _nodes
    /\ _nodes["y"] = [_nodes["z"] EXCEPT !.slot = 0]
    /\ _nodes["z"].kind = "SliceChannel"
    /\ _nodes["z"].slot = 1

(* C17: after ingestion and after every completed node step, every         *)
(* canonical param_N key of the Parameter Registry has a Node Registry     *)
(* entry that is a variable node whose recorded shape is the shape of the  *)
(* tensor stored under that key.                                           *)
Canonical(k) == k \in ParamIds /\ \E n \in DOMAIN _renames : _renames[n] = k

C17_ParamsHaveVariables ==
    pc \in {"node", "done"}
        => \A k \in DOMAIN _params :
              Canonical(k)
                => /\ k \in DOMAIN _nodes
                   /\ _nodes[k].kind = "Variable"
                   /\ _nodes[k].shape = {_params[k].shape}

(* C18: from_onnx does not reset the builder at its start.  A call on a    *)
(* builder that an earlier call, returned or failed, has used starts with  *)
(* the registries and counters that call left: its canonical numbering     *)
(* continues from those counters, and every Node Registry entry and every  *)
(* canonical parameter of the earlier call is still there when it returns. *)
(* Only a builder fresh from construction has empty registries and both    *)
(* counters at 0.                                                          *)
AgainStep == pc \in {"done", "failed"} /\ pc' = "initializer"

C18_StateCarriedAcrossCalls ==
    [][/\ pc = "idle" => <<_nodes, _params, _renames>> = <<EmptyMap, EmptyMap, EmptyMap>>
                          /\ _num_input = 0 /\ _num_param = 0
       /\ AgainStep
            => /\ _nodes' = _nodes /\ _params' = _params /\ _renames' = _renames
               /\ _num_input' = _num_input /\ _num_param' = _num_param
               /\ graph' = NoGraph
       /\ InputStep
            => LET name == graph'.input[Len(graph'.input)]
               IN  IF name \in DOMAIN _params
                   THEN /\ _renames'[name] = ParamId[_num_param + 1]
                        /\ _num_param' = _num_param + 1 /\ _num_input' = _num_input
                   ELSE /\ _renames'[name] = InputId[_num_input + 1]
                        /\ _num_input' = _num_input + 1 /\ _num_param' = _num_param
       /\ _num_input' >= _num_input /\ _num_param' >= _num_param
       /\ \A k \in DOMAIN _nodes : k \in DOMAIN _nodes' /\ _nodes'[k] = _nodes[k]
       /\ \A k \in DOMAIN _params :
             Canonical(k) => k \in DOMAIN _params' /\ _params'[k] = _params[k]]_vars

C18_Witness ==
    /\ pc = "done"
    /\ graph.initializer = <<TensorProto("w", <<3, 2>>)>>
    /\ graph.input = <<"w">>
    /\ graph.output = <<"param_1">>
    /\ _num_param = 2
    /\ _renames = [n \in {"w"} |-> "param_1"]
    /\ DOMAIN _params = {"param_0", "param_1"}
    /\ DOMAIN _nodes = {"param_0", "param_1"}
    /\ out = {Variable("param_1", {<<3, 2>>})}

====
